---- MODULE Spec2Model ----
(***************************************************************************)
(* Model of the registration-form test suite:                              *)
(*   page_objects/registration_page.py  (RegistrationFormPage)             *)
(*   tests/test_registration.py         (fill_form, the test functions)    *)
(*                                                                         *)
(* Two state machines share the variables of this module.                  *)
(*   Spec      the form session: the hypothesis iterations of              *)
(*             test_submit_registration_form_with_valid_data and of        *)
(*             field_validation driving one RegistrationFormPage.          *)
(*   SpecScan  domain discovery: scrape_dropdown_with_alphabet and         *)
(*             scrape_states_and_cities driving the type-ahead dropdowns.  *)
(* The browser is the environment.  Its answers (does the success modal    *)
(* show, does a WebDriver call raise, which options does a dropdown list)  *)
(* are nondeterministic choices or are fixed by the page chosen in Init.   *)
(***************************************************************************)
EXTENDS Integers, Sequences, FiniteSets, TLC

VARIABLES
    \* ---- RegistrationFormPage and the form in the browser (Spec) ----
    fields_filled,   \* self.fields_filled: field -> BOOLEAN
    control,         \* content of each field's control: sequence of fill tokens
    loaded,          \* the handles of load_elements belong to the current document
    \* ---- the running test iteration (Spec) ----
    test,            \* "none", "submit_valid" or "field_validation"
    pc,              \* position of the test function
    idx,             \* index of the running for loop
    data,            \* the record given to fill_form: field -> token, None for null
    override,        \* override_values of field_validation, its keys in order
    expect_succes,   \* expect_succes of field_validation
    is_submitted,    \* result of the last verify_submission
    err,             \* exception that ended the last operation, "none" when none
    iter,            \* hypothesis iterations started so far
    \* ---- history (Spec) ----
    fillsSince,      \* fill interactions of a control since its last clear or page reset
    calls,           \* fill interactions of each field in the current fill_form call
    entry_filled,    \* fields_filled as it was when the current fill_form call began
    indicator,       \* the success indicator became visible in the last verify_submission
    lastOp,          \* the page-object operation that ran last
    ops,             \* fill_form, submit and verify_submission calls of the
                     \* current iteration, in order
    sinceSubmit,     \* in the current iteration, "none": no submit since the last
                     \* clear_field or reset (or the start); "submitted": a submit
                     \* since then; "filled": a fill interaction after that submit
    \* ---- the page scanned and the dropdown controls (SpecScan) ----
    subjectsDom,     \* options of the subjects dropdown, in document order
    statesDom,       \* options of the state dropdown, in document order
    citiesOf,        \* state option -> options of the city dropdown, in document order
    typed,           \* text in the input of each dropdown
    selected,        \* options committed in each dropdown, oldest first
    \* ---- scrape_dropdown_with_alphabet (SpecScan) ----
    scanCtl,         \* the element scanned, "none" outside a scan
    scanPc,          \* position in the scan
    letterIdx,       \* index of the current letter in self.alphabet
    res,             \* the set res
    scanReturned,    \* the last scan returned a value
    scanResult,      \* that value
    \* ---- scrape_subjects / scrape_states_and_cities (SpecScan) ----
    caller,          \* "none", "scrape_subjects" or "scrape_states_and_cities"
    scPc,            \* position in scrape_states_and_cities
    states,          \* the local states
    stateIdx,        \* index of the for loop over states
    state_city_map,  \* the local state_city_map: sequence of <<state, cities>>
    mapReturned,     \* scrape_states_and_cities returned its map
    scanErr,         \* exception that ended the running call, "none" when none
    \* ---- history (SpecScan) ----
    typedLog,        \* letters typed by the current scan, in order
    readTexts,       \* texts that were in the control at each read of the options
    baseScans,       \* scans started by the current scrape_states_and_cities call
    scanned,         \* the results of the completed scrape_subjects calls, in order
    clearFailedAt,   \* index of the letter at which the scan's clear() raised, 0 if none
    \* ---- the strategies of hypothesis_strategies (SpecGen, SpecDates) ----
    genField,        \* the entry of STRATEGIES drawn from, "none" before the choice
    possible_values_,\* the record hypothesis_strategies was built from
    pictures,        \* PICTURES_DIR: directory name -> the *.jpeg files in it
    hasValid,        \* a value was drawn from the valid strategy
    drawnValid,      \* the last value drawn from the valid strategy
    hasInvalid,      \* a value was drawn from the invalid strategy
    drawnInvalid,    \* the last value drawn from the invalid strategy
    builtOn,         \* the day hypothesis_strategies ran (days since an epoch)
    today,           \* the current day
    dobKind,         \* "none", "valid" or "invalid": the strategy of the last date drawn
    dob,             \* the last date of birth drawn
    dobDrawnOn,      \* the day it was drawn
    \* ---- possible_values and the drivers (SpecCache) ----
    pvPc,            \* position of the possible_values call: "idle", "load",
                     \* "get_driver", "get_page", "scrape_<key>", "reset", "quit",
                     \* "write", "returned", "raised"
    use_cache,       \* the argument use_cache of the call
    cache_exists,    \* cache_path.exists()
    cache_file,      \* the content of the cache file
    site,            \* what the page of the site offers, by key of the record
    drv,             \* the driver of possible_values: "none", "open" or "quit"
    partial,         \* the entries of the dict literal evaluated so far
    hadCache,        \* cache_path.exists() when the call started
    prevWrote,       \* the call before this one wrote the cache file
    prevRet,         \* the record the call before this one returned
    pvCalls,         \* calls of possible_values started
    session,         \* the pytest session: "none", "tests", "finished", "ended"
    fixtureDrv       \* the driver of the session fixture: "none", "open" or "quit"

pageVars == <<fields_filled, control, loaded>>
testVars == <<test, pc, idx, data, override, expect_succes, is_submitted, err, iter>>
histVars == <<fillsSince, calls, entry_filled, indicator, lastOp, ops, sinceSubmit>>
formVars == <<pageVars, testVars, histVars>>
domVars  == <<subjectsDom, statesDom, citiesOf>>
ctlVars  == <<typed, selected>>
baseVars == <<scanCtl, scanPc, letterIdx, res, scanReturned, scanResult>>
callVars == <<caller, scPc, states, stateIdx, state_city_map, mapReturned, scanErr>>
logVars  == <<typedLog, readTexts, baseScans, scanned, clearFailedAt>>
scanVars == <<domVars, ctlVars, baseVars, callVars, logVars>>
genVars  == <<genField, possible_values_, pictures, hasValid, drawnValid, hasInvalid,
              drawnInvalid>>
genRest  == <<genField, pictures, hasValid, drawnValid, hasInvalid, drawnInvalid>>
dateVars == <<builtOn, today, dobKind, dob, dobDrawnOn>>
pvVars   == <<pvPc, use_cache, cache_exists, cache_file, site, drv, partial, hadCache,
              prevWrote, prevRet, pvCalls, session, fixtureDrv>>
extVars  == <<genVars, dateVars, pvVars>>
vars     == <<formVars, scanVars, extVars>>

\* ------------------------------------------------------------------------
\* Bounds
\* ------------------------------------------------------------------------
\* hypothesis iterations of the test functions in one session
MaxIter == 3
\* completed scrape_subjects calls in one session
MaxScans == 2

\* ------------------------------------------------------------------------
\* RegistrationFormPage: fields and flags
\* ------------------------------------------------------------------------
\* the null value of a record
None == 0

\* the keys of self.fields_filled
Fields ==
    {"first_name", "last_name", "email", "gender", "picture", "mobile",
     "date_of_birth", "subjects", "hobbies", "address", "state", "city"}

\* the attributes load_elements binds to an element handle; gender and hobbies
\* have none (their select methods look the element up on each call)
HandleFields == Fields \ {"gender", "hobbies"}

\* mutant: the record with city before state
DataOrder_city_first ==
    <<"first_name", "last_name", "email", "gender", "mobile", "date_of_birth",
      "subjects", "hobbies", "picture", "address", "city", "state">>

\* key order of the data record of test_submit_registration_form_with_valid_data
\* and of get_test_data's valid_data ({**valid_data, **override} keeps this order)
DataOrder ==
    <<"first_name", "last_name", "email", "gender", "mobile", "date_of_birth",
      "subjects", "hobbies", "picture", "address", "state", "city">>

\* the keys of fill_form's select_methods
SelectFields == {"gender", "date_of_birth", "subjects", "hobbies", "state", "city"}

\* select methods made of several WebDriver calls: one of them can raise after
\* an earlier one has already changed the control
MultiStepFields == {"date_of_birth", "subjects", "hobbies", "state", "city"}

NoFlags == [f \in Fields |-> FALSE]
NoCount == [f \in Fields |-> 0]
EmptyForm == [f \in Fields |-> <<>>]

\* saturating count of a history counter
Bump(n) == IF n < 2 THEN n + 1 ELSE 2

\* mutant: unfill_elements that forgets the last key
unfill_elements_skips_city(ff) == [f \in Fields |-> IF f = "city" THEN ff[f] ELSE FALSE]

\* unfill_elements: every flag to False
unfill_elements(ff) == [f \in Fields |-> FALSE]

\* any(page.fields_filled.values())
AnyFilled == \E f \in Fields : fields_filled[f]

\* ------------------------------------------------------------------------
\* RegistrationFormPage: operations on the form
\* ------------------------------------------------------------------------
\* reset(): driver.refresh(), unfill_elements(), load_elements().  loadOk is the
\* browser's answer to the find_element calls of load_elements: when one of them
\* raises NoSuchElementException the handles stay those of the old document.
reset(loadOk) ==
    /\ control' = EmptyForm
    /\ fields_filled' = unfill_elements(fields_filled)
    /\ loaded' = loadOk
    /\ fillsSince' = NoCount
    /\ lastOp' = IF loadOk THEN "reset" ELSE "reset_raised"
    /\ sinceSubmit' = "none"

\* what clear_field(field_name) does when it raises nothing: field.clear() and
\* the flag to False
clear_field(f) ==
    /\ control' = [control EXCEPT ![f] = <<>>]
    /\ fields_filled' = [fields_filled EXCEPT ![f] = FALSE]
    /\ fillsSince' = [fillsSince EXCEPT ![f] = 0]
    /\ lastOp' = "clear_field"
    /\ sinceSubmit' = "none"

\* mutant: verify_submission that only waits for the indicator
verify_submission_wait_only(visible, closeFound) == visible

\* verify_submission: the value returned.  visible: the wait for the modal title
\* ended before its timeout; closeFound: find_element("#closeLargeModal") found
\* the button.  TimeoutException and NoSuchElementException both give False.
verify_submission(visible, closeFound) == visible /\ closeFound

\* valid_hobbies can give the empty list: select_hobbies([]) clicks nothing
EmptyList == -1

\* the select method or fill_send_keys_field acts on the control: every value
\* but the empty list of hobbies
Interacts(f, value) == ~(f = "hobbies" /\ value = EmptyList)

\* mutant: fill_form that does not look at the filled-flag
ShouldFill_ignores_flag(f) == data[f] # None

\* fill_form's condition: value is not None and not page.fields_filled[field]
ShouldFill(f) == data[f] # None /\ ~fields_filled[f]

\* ------------------------------------------------------------------------
\* The test functions
\* ------------------------------------------------------------------------
\* override_values of the field_validation tests: the keys in order, the keys
\* whose generated value is null, and expect_succes
Override(keys, nulls, es) == [keys |-> keys, nulls |-> nulls, es |-> es]

Overrides ==
    UNION {{Override(<<f>>, {}, FALSE), Override(<<f>>, {f}, FALSE)} :
        f \in {"first_name", "last_name", "email", "picture", "mobile", "address"}} \cup
    {Override(<<"email">>, {}, TRUE),
     Override(<<"gender">>, {"gender"}, FALSE),
     Override(<<"date_of_birth">>, {}, FALSE),
     Override(<<"subjects">>, {"subjects"}, FALSE),
     Override(<<"state", "city">>, {"city"}, FALSE),
     Override(<<"state", "city">>, {"state", "city"}, FALSE)}

\* get_test_data(**override_values): the valid record with the overrides laid
\* over it; tok stands for the values generated for this iteration
get_test_data(ov, tok) == [f \in Fields |-> IF f \in ov.nulls THEN None ELSE tok]

\* leaving the test function: by return or by an exception
EndIteration(e) ==
    /\ pc' = "idle"
    /\ err' = e
    /\ idx' = 0

\* test_submit_registration_form_with_valid_data is called with a generated
\* record, every value of it non-null
SubmitTestStart ==
    /\ pc = "idle"
    /\ iter < MaxIter
    /\ iter' = iter + 1
    /\ test' = "submit_valid"
    /\ \E h \in {iter + 1, EmptyList} :
            data' = [f \in Fields |-> IF f = "hobbies" THEN h ELSE iter + 1]
    /\ override' = <<>>
    /\ expect_succes' = TRUE
    /\ pc' = "fill"
    /\ idx' = 1
    /\ err' = "none"
    /\ calls' = NoCount
    /\ entry_filled' = fields_filled
    /\ lastOp' = "none"
    /\ ops' = <<"fill_form">>
    /\ sinceSubmit' = "none"
    /\ UNCHANGED <<pageVars, is_submitted, fillsSince, indicator, scanVars, extVars>>

\* field_validation is called: with a flag set it calls page.reset(False), and
\* reset takes no argument, so the call raises TypeError before reset runs;
\* otherwise it builds the record and goes on to fill_form
FieldValidationStart ==
    /\ pc = "idle"
    /\ iter < MaxIter
    /\ \E ov \in Overrides :
        /\ iter' = iter + 1
        /\ test' = "field_validation"
        /\ override' = ov.keys
        /\ expect_succes' = ov.es
        /\ lastOp' = "none"
        /\ IF AnyFilled
           THEN /\ EndIteration("TypeError")
                /\ ops' = <<>>
                /\ UNCHANGED <<data, calls, entry_filled>>
           ELSE /\ data' = get_test_data(ov, iter + 1)
                /\ ops' = <<"fill_form">>
                /\ pc' = "fill"
                /\ idx' = 1
                /\ err' = "none"
                /\ calls' = NoCount
                /\ entry_filled' = fields_filled
    /\ sinceSubmit' = "none"
    /\ UNCHANGED <<pageVars, is_submitted, fillsSince, indicator, scanVars, extVars>>

\* mutant: the test goes from fill_form to verify_submission, without submit
NextEntry_skips_submit ==
    /\ idx' = IF idx < Len(DataOrder) THEN idx + 1 ELSE 0
    /\ pc' = IF idx < Len(DataOrder) THEN "fill" ELSE "verify"
    /\ err' = "none"

\* after the body of fill_form's loop for entry idx
NextEntry ==
    /\ idx' = IF idx < Len(DataOrder) THEN idx + 1 ELSE 0
    /\ pc' = IF idx < Len(DataOrder) THEN "fill" ELSE "submit"
    /\ err' = "none"

\* fill_form, one entry of data.items(): skip it, or call the select method or
\* fill_send_keys_field and then set the flag.  A call that clicks nothing
\* returns with the control as it was.  Otherwise the interaction
\*   - raises at once on a handle of an old document (nothing changes),
\*   - or completes,
\*   - or, for a select method of several WebDriver calls, raises part-way:
\*     the control has changed, the flag is not set and fill_form is left.
FillFormEntry ==
    /\ pc = "fill"
    /\ LET f == DataOrder[idx] IN
       IF ~ShouldFill(f)
       THEN /\ NextEntry
            /\ UNCHANGED <<pageVars, fillsSince, calls, lastOp, sinceSubmit>>
       ELSE /\ calls' = [calls EXCEPT ![f] = Bump(@)]
            /\ lastOp' = "fill"
            /\ UNCHANGED loaded
            /\ IF ~Interacts(f, data[f])
               THEN /\ fields_filled' = [fields_filled EXCEPT ![f] = TRUE]
                    /\ NextEntry
                    /\ UNCHANGED <<control, fillsSince, sinceSubmit>>
               ELSE IF f \in HandleFields /\ ~loaded
               THEN /\ EndIteration("StaleElementReferenceException")
                    /\ UNCHANGED <<fields_filled, control, fillsSince, sinceSubmit>>
               ELSE /\ control' = [control EXCEPT ![f] = Append(@, data[f])]
                    /\ fillsSince' = [fillsSince EXCEPT ![f] = Bump(@)]
                    /\ sinceSubmit' = IF sinceSubmit = "none" THEN "none" ELSE "filled"
                    /\ \/ /\ fields_filled' = [fields_filled EXCEPT ![f] = TRUE]
                          /\ NextEntry
                       \/ /\ f \in MultiStepFields
                          /\ EndIteration("WebDriverException")
                          /\ UNCHANGED fields_filled
    /\ UNCHANGED <<test, data, override, expect_succes, is_submitted, iter,
                   entry_filled, indicator, ops, scanVars, extVars>>

\* page.submit(): click the submit button
Submit ==
    /\ pc = "submit"
    /\ pc' = "verify"
    /\ lastOp' = "submit"
    /\ ops' = Append(ops, "submit")
    /\ sinceSubmit' = "submitted"
    /\ UNCHANGED <<pageVars, test, idx, data, override, expect_succes, is_submitted,
                   err, iter, fillsSince, calls, entry_filled, indicator, scanVars, extVars>>

\* is_submitted = page.verify_submission()
VerifySubmission ==
    /\ pc = "verify"
    /\ \E visible \in BOOLEAN, closeFound \in BOOLEAN :
        /\ indicator' = visible
        /\ is_submitted' = verify_submission(visible, closeFound)
    /\ pc' = IF test = "submit_valid" THEN "finally" ELSE "branch"
    /\ lastOp' = "verify_submission"
    /\ ops' = Append(ops, "verify_submission")
    /\ UNCHANGED <<pageVars, test, idx, data, override, expect_succes, err, iter,
                   fillsSince, calls, entry_filled, sinceSubmit, scanVars, extVars>>

\* the try/finally of test_submit_registration_form_with_valid_data: the assert
\* fails, or page.close_modal() raises AttributeError (RegistrationFormPage has
\* no close_modal); either way the outer finally runs page.reset()
SubmitTestFinally ==
    /\ pc = "finally"
    /\ \E loadOk \in BOOLEAN :
        /\ reset(loadOk)
        /\ EndIteration(IF ~loadOk THEN "NoSuchElementException"
                        ELSE IF is_submitted THEN "AttributeError"
                        ELSE "AssertionError")
    /\ UNCHANGED <<test, data, override, expect_succes, is_submitted, iter,
                   calls, entry_filled, indicator, ops, scanVars, extVars>>

\* field_validation after verify_submission: on success page.close_modal()
\* raises AttributeError, so unfill_elements and load_elements(False) do not
\* run; on rejection the loop over override_values begins
FieldValidationBranch ==
    /\ pc = "branch"
    /\ IF is_submitted
       THEN EndIteration("AttributeError")
       ELSE /\ pc' = "clear"
            /\ idx' = 1
            /\ err' = "none"
    /\ UNCHANGED <<pageVars, test, data, override, expect_succes, is_submitted,
                   iter, histVars, scanVars, extVars>>

\* field_validation, one field of override_values: page.clear_field(field).
\* getattr raises AttributeError for a field without a handle attribute; the
\* handler calls page.reset(False), which raises TypeError.  clear() on a
\* handle of an old document raises StaleElementReferenceException.
FieldValidationClear ==
    /\ pc = "clear"
    /\ LET f == override[idx] IN
       IF f \notin HandleFields
       THEN /\ EndIteration("TypeError")
            /\ lastOp' = "clear_field_no_attribute"
            /\ UNCHANGED <<pageVars, fillsSince, sinceSubmit>>
       ELSE IF ~loaded
       THEN /\ EndIteration("StaleElementReferenceException")
            /\ lastOp' = "clear_field_raised"
            /\ UNCHANGED <<pageVars, fillsSince, sinceSubmit>>
       ELSE /\ clear_field(f)
            /\ UNCHANGED loaded
            /\ err' = "none"
            /\ idx' = IF idx < Len(override) THEN idx + 1 ELSE 0
            /\ pc' = IF idx < Len(override) THEN "clear" ELSE "assert"
    /\ UNCHANGED <<test, data, override, expect_succes, is_submitted, iter,
                   calls, entry_filled, indicator, ops, scanVars, extVars>>

\* the closing assert of field_validation
FieldValidationAssert ==
    /\ pc = "assert"
    /\ EndIteration(IF expect_succes = is_submitted THEN "none" ELSE "AssertionError")
    /\ UNCHANGED <<pageVars, test, data, override, expect_succes, is_submitted,
                   iter, histVars, scanVars, extVars>>

\* ------------------------------------------------------------------------
\* The form session
\* ------------------------------------------------------------------------
InitScanIdle ==
    /\ subjectsDom = <<>> /\ statesDom = <<>> /\ citiesOf = <<>>
    /\ typed = <<>> /\ selected = <<>>
    /\ scanCtl = "none" /\ scanPc = "idle" /\ letterIdx = 0 /\ res = {}
    /\ scanReturned = FALSE /\ scanResult = <<>>
    /\ caller = "none" /\ scPc = "idle" /\ states = <<>> /\ stateIdx = 0
    /\ state_city_map = <<>> /\ mapReturned = FALSE /\ scanErr = "none"
    /\ typedLog = <<>> /\ readTexts = {} /\ baseScans = 0
    /\ scanned = <<>> /\ clearFailedAt = 0

\* RegistrationFormPage.__init__ on the freshly opened page, no test run yet
InitForm ==
    /\ fields_filled = NoFlags
    /\ control = EmptyForm
    /\ loaded = TRUE
    /\ test = "none" /\ pc = "idle" /\ idx = 0
    /\ data = [f \in Fields |-> None]
    /\ override = <<>> /\ expect_succes = FALSE /\ is_submitted = FALSE
    /\ err = "none" /\ iter = 0
    /\ fillsSince = NoCount /\ calls = NoCount /\ entry_filled = NoFlags
    /\ indicator = FALSE /\ lastOp = "none"
    /\ ops = <<>> /\ sinceSubmit = "none"

\* no strategy has been drawn from
InitGenIdle ==
    /\ genField = "none"
    /\ possible_values_ = <<>> /\ pictures = <<>>
    /\ hasValid = FALSE /\ drawnValid = <<>>
    /\ hasInvalid = FALSE /\ drawnInvalid = <<>>

\* no date has been drawn
InitDatesIdle ==
    /\ builtOn = 0 /\ today = 0
    /\ dobKind = "none" /\ dob = 0 /\ dobDrawnOn = 0

\* possible_values is not running, no driver is open
InitPvIdle ==
    /\ pvPc = "idle" /\ use_cache = FALSE
    /\ cache_exists = FALSE /\ cache_file = <<>>
    /\ site = <<>> /\ drv = "none" /\ partial = <<>>
    /\ hadCache = FALSE /\ prevWrote = FALSE /\ prevRet = <<>>
    /\ pvCalls = 0 /\ session = "none" /\ fixtureDrv = "none"

InitExtIdle == InitGenIdle /\ InitDatesIdle /\ InitPvIdle

Init == InitForm /\ InitScanIdle /\ InitExtIdle

Next ==
    \/ SubmitTestStart
    \/ FieldValidationStart
    \/ FillFormEntry
    \/ Submit
    \/ VerifySubmission
    \/ SubmitTestFinally
    \/ FieldValidationBranch
    \/ FieldValidationClear
    \/ FieldValidationAssert

Spec == Init /\ [][Next]_vars

\* ------------------------------------------------------------------------
\* Texts and the type-ahead dropdowns
\* ------------------------------------------------------------------------
\* A text is the sequence of its code points.
\* self.alphabet = "abcdefghijklmnopqrstuvwxyz"
alphabet == [i \in 1..26 |-> 96 + i]

\* the dropdown inputs: self.subjects, self.state, self.city
DropCtls == {"subjects", "state", "city"}

Range(q) == {q[i] : i \in DOMAIN q}

\* option texts of the pages scanned
Maths    == <<77, 97, 116, 104, 115>>
Arts     == <<65, 114, 116, 115>>
Hindi    == <<72, 105, 110, 100, 105>>
NCR      == <<78, 67, 82>>
Goa      == <<71, 111, 97>>
NorthGoa == <<78, 111, 114, 116, 104, 32, 71, 111, 97>>
Delhi    == <<68, 101, 108, 104, 105>>
Agra     == <<65, 103, 114, 97>>
Male     == <<77, 97, 108, 101>>
Female   == <<70, 101, 109, 97, 108, 101>>
Other    == <<79, 116, 104, 101, 114>>
Sports   == <<83, 112, 111, 114, 116, 115>>
Music    == <<77, 117, 115, 105, 99>>

\* str.lower on one code point (A-Z) and on a text
Lower(c) == IF c \in 65..90 THEN c + 32 ELSE c
LowerText(t) == [i \in 1..Len(t) |-> Lower(t[i])]

\* XPath contains(., 'needle'): needle occurs in hay, case-sensitive
Contains(hay, needle) ==
    \E k \in 0..(Len(hay) - Len(needle)) :
        \A j \in 1..Len(needle) : hay[k + j] = needle[j]

\* the dropdown lists an option for the typed text when the text occurs in the
\* option, letter case ignored
Matches(option, text) == Contains(LowerText(option), LowerText(text))

\* the options of a control's menu, whatever is typed
Domain(c) ==
    IF c = "subjects" THEN subjectsDom
    ELSE IF c = "state" THEN statesDom
    ELSE IF selected["state"] = <<>> THEN <<>>
    ELSE citiesOf[selected["state"][Len(selected["state"])]]

\* driver.find_elements(By.XPATH, self.dropdown_options_xpath) while the text is
\* in the control c: the texts of the options listed, in document order; no
\* menu is open while the input is empty
Options(c, text) ==
    IF text = <<>> THEN <<>>
    ELSE SelectSeq(Domain(c), LAMBDA o : Matches(o, text))

\* a < b in the order of Python's str comparison
LexLess(a, b) ==
    \E i \in 1..Len(b) :
        /\ i - 1 <= Len(a)
        /\ \A j \in 1..(i - 1) : a[j] = b[j]
        /\ (i > Len(a) \/ a[i] < b[i])

\* mutant: the set turned into a list in descending order
RECURSIVE sorted_descending(_)
sorted_descending(S) ==
    IF S = {} THEN <<>>
    ELSE LET m == CHOOSE x \in S : \A y \in S \ {x} : LexLess(y, x)
         IN  <<m>> \o sorted_descending(S \ {m})

\* sorted(res): the elements of the set in ascending order
RECURSIVE sorted(_)
sorted(S) ==
    IF S = {} THEN <<>>
    ELSE LET m == CHOOSE x \in S : \A y \in S \ {x} : LexLess(x, y)
         IN  <<m>> \o sorted(S \ {m})

\* mutant: a scan that does not clear the control
scan_clear_nothing(text, i) == text

\* mutant: a scan that clears before each letter but the first, not after
scan_clear_not_last(text, i) == IF i = Len(alphabet) THEN text ELSE <<>>

\* element.clear() at the end of the scan's loop body for letter i: the text
\* left in the control
scan_clear(text, i) == <<>>

\* mutant: a scan that swallows the exception of element.clear()
after_clear_error_swallowed(i) == IF i < Len(alphabet) THEN "type" ELSE "return"

\* where scrape_dropdown_with_alphabet goes when element.clear() raises at
\* letter i: the exception leaves the function
after_clear_error(i) == "raised"

\* state_city_map[state] = cities on a dict kept as the sequence of its items
DictSet(m, k, v) ==
    IF \E i \in DOMAIN m : m[i][1] = k
    THEN [i \in DOMAIN m |-> IF m[i][1] = k THEN <<k, v>> ELSE m[i]]
    ELSE Append(m, <<k, v>>)

\* select_from_dropdown, the element found: the first listed option whose text
\* contains the requested text; <<>> when find_element finds none
FirstContaining(opts, option) ==
    LET hits == SelectSeq(opts, LAMBDA o : Contains(o, option))
    IN  IF hits = <<>> THEN <<>> ELSE hits[1]

\* ------------------------------------------------------------------------
\* scrape_dropdown_with_alphabet
\* ------------------------------------------------------------------------
\* entering scrape_dropdown_with_alphabet(element): res = set(), first letter
StartScan(c) ==
    /\ scanCtl' = c
    /\ scanPc' = "type"
    /\ letterIdx' = 1
    /\ res' = {}
    /\ scanReturned' = FALSE
    /\ scanResult' = <<>>
    /\ typedLog' = <<>>
    /\ readTexts' = {}

\* element.send_keys(letter)
ScanType ==
    /\ scanPc = "type"
    /\ typed' = [typed EXCEPT ![scanCtl] = Append(@, alphabet[letterIdx])]
    /\ typedLog' = Append(typedLog, alphabet[letterIdx])
    /\ scanPc' = "read"
    /\ UNCHANGED <<formVars, extVars, domVars, selected, scanCtl, letterIdx, res, scanReturned,
                   scanResult, callVars, readTexts, baseScans, scanned, clearFailedAt>>

\* dropdown_options = find_elements(...); if dropdown_options: res.update(texts)
ScanRead ==
    /\ scanPc = "read"
    /\ res' = res \cup Range(Options(scanCtl, typed[scanCtl]))
    /\ readTexts' = readTexts \cup {typed[scanCtl]}
    /\ scanPc' = "clear"
    /\ UNCHANGED <<formVars, extVars, domVars, ctlVars, scanCtl, letterIdx, scanReturned,
                   scanResult, callVars, typedLog, baseScans, scanned, clearFailedAt>>

\* element.clear(), then the next letter or the end of the loop; clear() may
\* raise, and nothing in the scan or its callers catches it
ScanClear ==
    /\ scanPc = "clear"
    /\ \/ /\ typed' = [typed EXCEPT ![scanCtl] = scan_clear(@, letterIdx)]
          /\ scanPc' = IF letterIdx < Len(alphabet) THEN "type" ELSE "return"
          /\ letterIdx' = IF letterIdx < Len(alphabet) THEN letterIdx + 1 ELSE letterIdx
          /\ UNCHANGED <<scanErr, clearFailedAt>>
       \/ /\ scanPc' = after_clear_error(letterIdx)
          /\ letterIdx' = IF scanPc' = "type" THEN letterIdx + 1 ELSE letterIdx
          /\ scanErr' = IF scanPc' = "raised" THEN "InvalidElementStateException" ELSE scanErr
          /\ clearFailedAt' = letterIdx
          /\ UNCHANGED typed
    /\ UNCHANGED <<formVars, extVars, domVars, selected, scanCtl, res, scanReturned, scanResult,
                   caller, scPc, states, stateIdx, state_city_map, mapReturned,
                   typedLog, readTexts, baseScans, scanned>>

\* return sorted(res)
ScanReturn ==
    /\ scanPc = "return"
    /\ scanResult' = sorted(res)
    /\ scanReturned' = TRUE
    /\ scanPc' = "returned"
    /\ UNCHANGED <<formVars, extVars, domVars, ctlVars, scanCtl, letterIdx, res, callVars, logVars>>

\* ------------------------------------------------------------------------
\* scrape_subjects and scrape_states_and_cities
\* ------------------------------------------------------------------------
\* page.scrape_subjects() is called
ScrapeSubjectsCall ==
    /\ caller = "none" /\ scanErr = "none"
    /\ Len(scanned) < MaxScans
    /\ caller' = "scrape_subjects"
    /\ StartScan("subjects")
    /\ UNCHANGED <<formVars, extVars, domVars, ctlVars, scPc, states, stateIdx, state_city_map,
                   mapReturned, scanErr, baseScans, scanned, clearFailedAt>>

\* scrape_subjects returns what the scan returned
ScrapeSubjectsReturn ==
    /\ caller = "scrape_subjects" /\ scanPc = "returned"
    /\ scanned' = Append(scanned, scanResult)
    /\ caller' = "none"
    /\ scanCtl' = "none"
    /\ scanPc' = "idle"
    /\ UNCHANGED <<formVars, extVars, domVars, ctlVars, letterIdx, res, scanReturned, scanResult,
                   scPc, states, stateIdx, state_city_map, mapReturned, scanErr,
                   typedLog, readTexts, baseScans, clearFailedAt>>

\* page.scrape_states_and_cities() is called: state_city_map = {} and the scan
\* of self.state begins
ScrapeStatesAndCitiesCall ==
    /\ caller = "none" /\ scanErr = "none"
    /\ ~mapReturned
    /\ caller' = "scrape_states_and_cities"
    /\ scPc' = "scan_states"
    /\ state_city_map' = <<>>
    /\ states' = <<>>
    /\ stateIdx' = 0
    /\ baseScans' = 1
    /\ StartScan("state")
    /\ UNCHANGED <<formVars, extVars, domVars, ctlVars, mapReturned, scanErr, scanned, clearFailedAt>>

\* states = <the scan's result>; the for loop begins
StatesScanned ==
    /\ caller = "scrape_states_and_cities" /\ scPc = "scan_states"
    /\ scanPc = "returned"
    /\ states' = scanResult
    /\ stateIdx' = IF scanResult = <<>> THEN 0 ELSE 1
    /\ scPc' = IF scanResult = <<>> THEN "return" ELSE "select"
    /\ scanPc' = "idle"
    /\ scanCtl' = "none"
    /\ UNCHANGED <<formVars, extVars, domVars, ctlVars, letterIdx, res, scanReturned, scanResult,
                   caller, state_city_map, mapReturned, scanErr, logVars>>

\* self.select_state(state), that is select_from_dropdown(self.state, state):
\* send_keys(option), find the first listed option containing the text, click
\* it (the option is committed and the input emptied); then the scan of
\* self.city begins.  find_element raises NoSuchElementException when no listed
\* option contains the text.
SelectState ==
    /\ caller = "scrape_states_and_cities" /\ scPc = "select"
    /\ LET text == typed["state"] \o states[stateIdx]
           hit  == FirstContaining(Options("state", text), states[stateIdx])
       IN  IF hit = <<>>
           THEN /\ typed' = [typed EXCEPT !["state"] = text]
                /\ scanErr' = "NoSuchElementException"
                /\ scPc' = "raised"
                /\ UNCHANGED <<selected, baseVars, typedLog, readTexts, baseScans>>
           ELSE /\ typed' = [typed EXCEPT !["state"] = <<>>]
                /\ selected' = [selected EXCEPT !["state"] = Append(@, hit)]
                /\ scPc' = "scan_cities"
                /\ baseScans' = baseScans + 1
                /\ StartScan("city")
                /\ UNCHANGED scanErr
    /\ UNCHANGED <<formVars, extVars, domVars, caller, states, stateIdx, state_city_map,
                   mapReturned, scanned, clearFailedAt>>

\* state_city_map[state] = <the scan's result>; self.state.clear(); next state.
\* clear() may raise.
CitiesScanned ==
    /\ caller = "scrape_states_and_cities" /\ scPc = "scan_cities"
    /\ scanPc = "returned"
    /\ state_city_map' = DictSet(state_city_map, states[stateIdx], scanResult)
    /\ scanPc' = "idle"
    /\ scanCtl' = "none"
    /\ \/ /\ typed' = [typed EXCEPT !["state"] = <<>>]
          /\ selected' = [selected EXCEPT !["state"] = <<>>]
          /\ stateIdx' = IF stateIdx < Len(states) THEN stateIdx + 1 ELSE stateIdx
          /\ scPc' = IF stateIdx < Len(states) THEN "select" ELSE "return"
          /\ UNCHANGED scanErr
       \/ /\ scanErr' = "InvalidElementStateException"
          /\ scPc' = "raised"
          /\ UNCHANGED <<ctlVars, stateIdx>>
    /\ UNCHANGED <<formVars, extVars, domVars, letterIdx, res, scanReturned, scanResult,
                   caller, states, mapReturned, logVars>>

\* return state_city_map
ScrapeStatesAndCitiesReturn ==
    /\ caller = "scrape_states_and_cities" /\ scPc = "return"
    /\ mapReturned' = TRUE
    /\ caller' = "none"
    /\ scPc' = "idle"
    /\ UNCHANGED <<formVars, extVars, domVars, ctlVars, baseVars, states, stateIdx,
                   state_city_map, scanErr, logVars>>

\* ------------------------------------------------------------------------
\* Domain discovery
\* ------------------------------------------------------------------------
\* the sequences that list every element of S once
Orders(S) == {q \in [1..Cardinality(S) -> S] : Range(q) = S}

\* pages: the subjects menu in some order, or a states menu with a city menu
\* (possibly empty) per state; the other menus are empty
Pages ==
    {[subjects |-> q, states |-> <<>>, cities |-> <<>>] :
        q \in {<<>>, <<Maths, Arts, Hindi>>, <<Hindi, Maths>>, <<Arts>>}} \cup
    UNION {UNION {{[subjects |-> <<>>, states |-> q, cities |-> cs] :
                        cs \in [U -> {<<>>, <<Delhi, Agra>>}]} : q \in Orders(U)} :
           U \in (SUBSET {NCR, Goa, NorthGoa}) \ {{}}}

\* the page just opened: every dropdown empty, the page object idle
InitScan ==
    /\ InitForm
    /\ InitExtIdle
    /\ \E p \in Pages :
        /\ subjectsDom = p.subjects
        /\ statesDom = p.states
        /\ citiesOf = p.cities
    /\ typed = [c \in DropCtls |-> <<>>]
    /\ selected = [c \in DropCtls |-> <<>>]
    /\ scanCtl = "none" /\ scanPc = "idle" /\ letterIdx = 0 /\ res = {}
    /\ scanReturned = FALSE /\ scanResult = <<>>
    /\ caller = "none" /\ scPc = "idle" /\ states = <<>> /\ stateIdx = 0
    /\ state_city_map = <<>> /\ mapReturned = FALSE /\ scanErr = "none"
    /\ typedLog = <<>> /\ readTexts = {} /\ baseScans = 0
    /\ scanned = <<>> /\ clearFailedAt = 0

NextScan ==
    \/ ScrapeSubjectsCall
    \/ ScrapeSubjectsReturn
    \/ ScrapeStatesAndCitiesCall
    \/ StatesScanned
    \/ SelectState
    \/ CitiesScanned
    \/ ScrapeStatesAndCitiesReturn
    \/ ScanType
    \/ ScanRead
    \/ ScanClear
    \/ ScanReturn

SpecScan == InitScan /\ [][NextScan]_vars

\* ------------------------------------------------------------------------
\* hypothesis_strategies: texts
\* ------------------------------------------------------------------------
\* runs of equal characters a generated text is built from
MaxRuns == 2

\* a generated value: null or a text
NoneVal == [none |-> TRUE, text |-> <<>>]
Val(t) == [none |-> FALSE, text |-> t]

\* Unicode general category of the code points used: a-z, A-Z, 0-9, space and
\* ASCII punctuation
Category(c) ==
    IF c \in 97..122 THEN "Ll"
    ELSE IF c \in 65..90 THEN "Lu"
    ELSE IF c \in 48..57 THEN "Nd"
    ELSE IF c = 32 THEN "Zs"
    ELSE "Po"

\* str.isalpha on one character
isalpha(c) == Category(c) \in {"Ll", "Lu"}

\* the characters names are generated from: a letter, a digit, a punctuation
\* mark and the space
NameChars == {97, 55, 33, 32}

\* the characters mobile numbers are generated from: two digits, a letter and
\* a punctuation mark
MobileChars == {48, 55, 97, 33}

\* the text of n characters c
Run(c, n) == [i \in 1..n |-> c]

\* the text made of the runs q[1], q[2], ...: each a pair <<character, length>>
RECURSIVE Expand(_)
Expand(q) == IF q = <<>> THEN <<>> ELSE Run(q[1][1], q[1][2]) \o Expand(Tail(q))

\* the texts of at most MaxRuns runs of the characters and lengths given
TextsOfRuns(chars, lengths) ==
    {Expand(q) : q \in UNION {[1..n -> chars \X lengths] : n \in 1..MaxRuns}}

\* st.text(alphabet, min_size, max_size) over the texts given; max 0: no max_size
text(texts, chars, min_size, max_size) ==
    {t \in texts :
        /\ \A i \in DOMAIN t : t[i] \in chars
        /\ Len(t) >= min_size
        /\ (max_size = 0 \/ Len(t) <= max_size)}

\* index of the first character that is no space, Len(t) + 1 if none
FirstNonSpace(t) ==
    CHOOSE i \in 1..(Len(t) + 1) :
        /\ i > Len(t) \/ t[i] # 32
        /\ \A j \in 1..(i - 1) : t[j] = 32

\* index of the last character that is no space, 0 if none
LastNonSpace(t) ==
    CHOOSE i \in 0..Len(t) :
        /\ i < 1 \/ t[i] # 32
        /\ \A j \in (i + 1)..Len(t) : t[j] = 32

\* str.strip: without the leading and the trailing spaces
strip(t) == SubSeq(t, FirstNonSpace(t), LastNonSpace(t))

\* the characters from min_supported on that the model tells apart: the
\* printable ASCII characters
Chars == 32..126

\* st.characters(categories=("Ll", "Lu", "Nd"), include_characters="-' ")
NameChar == {c \in Chars : Category(c) \in {"Ll", "Lu", "Nd"} \/ c \in {45, 39, 32}}

\* st.characters(categories=("S", "P", "N"), include_characters="-' ")
NoLetterChar == {c \in Chars : Category(c) \in {"Po", "Nd"} \/ c \in {45, 39, 32}}

\* st.characters(exclude_categories=("C",))
NoControlChar == {c \in Chars : Category(c) \in {"Ll", "Lu", "Nd", "Zs", "Po"}}

\* max_size of valid_name_or_address
name_max_size == 300

\* min_size of the "extremely long string" of invalid_name_or_address
long_min_size == 300

\* valid_name_or_address: text(...).filter(any isalpha).map(str.strip)
valid_name_or_address(texts) ==
    {Val(strip(t)) :
        t \in {u \in text(texts, NameChar, 1, name_max_size) :
                    \E i \in DOMAIN u : isalpha(u[i])}}

\* invalid_name_or_address: one_of(none(), text without letters, long text),
\* the texts stripped
invalid_name_or_address(texts) ==
    {NoneVal}
    \cup {Val(strip(t)) : t \in text(texts, NoLetterChar, 1, 0)}
    \cup {Val(strip(t)) : t \in text(texts, NoControlChar, long_min_size, 0)}

\* the texts the name and address strategies are tried on: runs of 1, 299 and
\* 300 characters
NameTexts == TextsOfRuns(NameChars, {1, name_max_size - 1, name_max_size})
ValidNames == valid_name_or_address(NameTexts)
InvalidNames == invalid_name_or_address(NameTexts)

\* one value is drawn from STRATEGIES["first_name"].valid (last_name and
\* address use the same strategy)
DrawValidName ==
    /\ genField = "name" /\ ~hasValid
    /\ \E v \in ValidNames : drawnValid' = v
    /\ hasValid' = TRUE
    /\ UNCHANGED <<formVars, scanVars, genField, possible_values_, pictures,
                   hasInvalid, drawnInvalid, dateVars, pvVars>>

\* one value is drawn from STRATEGIES["first_name"].invalid
DrawInvalidName ==
    /\ genField = "name" /\ ~hasInvalid
    /\ \E v \in InvalidNames : drawnInvalid' = v
    /\ hasInvalid' = TRUE
    /\ UNCHANGED <<formVars, scanVars, genField, possible_values_, pictures,
                   hasValid, drawnValid, dateVars, pvVars>>

\* digits = "1234567890"
DigitChar == 48..57

\* st.characters(exclude_categories=("Nd", "C"))
NonNumericChar == {c \in Chars : Category(c) \in {"Ll", "Lu", "Zs", "Po"}}

\* min_size and max_size of valid_mobile
mobile_size == 10

\* max_size of the "fewer than 10 digits" texts of invalid_mobile
short_mobile_max == 9

\* max_size of the non-numeric texts of invalid_mobile
non_numeric_max == 10

\* mutant: valid_mobile with min_size one less
valid_mobile_min_9(texts) ==
    {Val(t) : t \in text(texts, DigitChar, mobile_size - 1, mobile_size)}

\* valid_mobile = st.text(alphabet=digits, min_size=10, max_size=10)
valid_mobile(texts) == {Val(t) : t \in text(texts, DigitChar, mobile_size, mobile_size)}

\* invalid_mobile = one_of(short digit text, non-numeric text, none())
invalid_mobile(texts) ==
    {Val(t) : t \in text(texts, DigitChar, 1, short_mobile_max)}
    \cup {Val(t) : t \in text(texts, NonNumericChar, 1, non_numeric_max)}
    \cup {NoneVal}

\* the texts the mobile strategies are tried on: runs of 1, 9 and 10 characters
MobileTexts == TextsOfRuns(MobileChars, {1, mobile_size - 1, mobile_size})
ValidMobiles == valid_mobile(MobileTexts)
InvalidMobiles == invalid_mobile(MobileTexts)

\* one value is drawn from STRATEGIES["mobile"].valid
DrawValidMobile ==
    /\ genField = "mobile" /\ ~hasValid
    /\ \E v \in ValidMobiles : drawnValid' = v
    /\ hasValid' = TRUE
    /\ UNCHANGED <<formVars, scanVars, genField, possible_values_, pictures,
                   hasInvalid, drawnInvalid, dateVars, pvVars>>

\* one value is drawn from STRATEGIES["mobile"].invalid
DrawInvalidMobile ==
    /\ genField = "mobile" /\ ~hasInvalid
    /\ \E v \in InvalidMobiles : drawnInvalid' = v
    /\ hasInvalid' = TRUE
    /\ UNCHANGED <<formVars, scanVars, genField, possible_values_, pictures,
                   hasValid, drawnValid, dateVars, pvVars>>

\* ------------------------------------------------------------------------
\* hypothesis_strategies: the strategies built from possible_values
\* ------------------------------------------------------------------------
\* list(d): the keys of a dict kept as the sequence of its items
Keys(m) == {m[i][1] : i \in DOMAIN m}

\* d[k]
DictGet(m, k) == m[CHOOSE i \in DOMAIN m : m[i][1] = k][2]

\* mutant: the city sampled from the cities of all states
valid_state_and_city_any_city(m) ==
    {<<Val(st), Val(c)>> : st \in Keys(m), c \in UNION {Range(DictGet(m, k)) : k \in Keys(m)}}

\* valid_state_and_city: state sampled from the keys of state_city_map, city
\* sampled from state_city_map[state] (no value when that list is empty)
valid_state_and_city(m) ==
    UNION {{<<Val(st), Val(c)>> : c \in Range(DictGet(m, st))} : st \in Keys(m)}

\* invalid_state_and_city: state sampled from the keys or none(), city none()
invalid_state_and_city(m) ==
    {<<st, NoneVal>> : st \in {Val(k) : k \in Keys(m)} \cup {NoneVal}}

\* a *.jpeg file and another file of a pictures directory
Jpeg(n) == [name |-> n, ext |-> "jpeg"]
Txt(n) == [name |-> n, ext |-> "txt"]

\* (PICTURES_DIR / gender).glob("*.jpeg"): the paths found; none when the
\* directory does not exist
glob_jpeg(dirs, gender) ==
    IF gender \notin DOMAIN dirs THEN {}
    ELSE {[dir |-> gender, file |-> f] : f \in {g \in dirs[gender] : g.ext = "jpeg"}}

\* mutant: the picture sampled from the pictures of all genders
valid_gender_and_picture_any_dir(genders, dirs) ==
    {<<g, pic>> : g \in Range(genders),
                  pic \in UNION {glob_jpeg(dirs, h) : h \in Range(genders)}}

\* valid_gender_and_picture: gender sampled from possible_values["genders"],
\* picture sampled from the *.jpeg files of that gender's directory
valid_gender_and_picture(genders, dirs) ==
    UNION {{<<g, pic>> : pic \in glob_jpeg(dirs, g)} : g \in Range(genders)}

\* one pair is drawn from STRATEGIES["state_and_city"].valid
DrawValidStateAndCity ==
    /\ genField = "state_and_city" /\ ~hasValid
    /\ \E v \in valid_state_and_city(possible_values_.state_city_map) : drawnValid' = v
    /\ hasValid' = TRUE
    /\ UNCHANGED <<formVars, scanVars, genField, possible_values_, pictures,
                   hasInvalid, drawnInvalid, dateVars, pvVars>>

\* one pair is drawn from STRATEGIES["state_and_city"].invalid
DrawInvalidStateAndCity ==
    /\ genField = "state_and_city" /\ ~hasInvalid
    /\ \E v \in invalid_state_and_city(possible_values_.state_city_map) : drawnInvalid' = v
    /\ hasInvalid' = TRUE
    /\ UNCHANGED <<formVars, scanVars, genField, possible_values_, pictures,
                   hasValid, drawnValid, dateVars, pvVars>>

\* one pair is drawn from STRATEGIES["gender_and_picture"].valid
DrawValidGenderAndPicture ==
    /\ genField = "gender_and_picture" /\ ~hasValid
    /\ \E v \in valid_gender_and_picture(possible_values_.genders, pictures) :
            drawnValid' = v
    /\ hasValid' = TRUE
    /\ UNCHANGED <<formVars, scanVars, genField, possible_values_, pictures,
                   hasInvalid, drawnInvalid, dateVars, pvVars>>

\* records possible_values() can return: the genders, and state_city_map with
\* the cities of each state (a state can come with no city)
PossibleValues ==
    {[genders |-> g, hobbies |-> <<Sports, Music>>, subjects |-> <<Arts, Maths>>,
      state_city_map |-> m] :
        g \in {<<Male, Female, Other>>, <<Male, Female>>},
        m \in {<<>>,
               <<<<NCR, <<Agra, Delhi>>>>>>,
               <<<<Goa, <<Agra>>>>, <<NCR, <<Delhi>>>>>>,
               <<<<Goa, <<>>>>, <<NCR, <<Agra, Delhi>>>>>>}}

\* contents of PICTURES_DIR: one directory per gender (one may be missing)
PictureDirs ==
    {[d \in {Male, Female, Other} |->
        IF d = Male THEN {Jpeg("m1"), Jpeg("m2"), Txt("notes")}
        ELSE IF d = Female THEN {Jpeg("f1")} ELSE {Jpeg("o1")}],
     [d \in {Male, Female} |->
        IF d = Male THEN {Jpeg("m1")} ELSE {Jpeg("f1"), Jpeg("f2")}]}

\* hypothesis_strategies(POSSIBLE_VALUES) has run; nothing drawn yet.  The
\* text strategies do not read possible_values.
InitGen ==
    /\ InitForm /\ InitScanIdle /\ InitDatesIdle /\ InitPvIdle
    /\ hasValid = FALSE /\ drawnValid = <<>>
    /\ hasInvalid = FALSE /\ drawnInvalid = <<>>
    /\ possible_values_ \in PossibleValues
    /\ pictures \in PictureDirs
    /\ genField \in {"name", "mobile", "state_and_city", "gender_and_picture"}

NextGen ==
    \/ DrawValidName
    \/ DrawInvalidName
    \/ DrawValidMobile
    \/ DrawInvalidMobile
    \/ DrawValidStateAndCity
    \/ DrawInvalidStateAndCity
    \/ DrawValidGenderAndPicture

SpecGen == InitGen /\ [][NextGen]_vars

\* ------------------------------------------------------------------------
\* possible_values: the cache file and the drivers
\* ------------------------------------------------------------------------
\* calls of possible_values (runs of the test module) in one behaviour
MaxCalls == 2

\* the keys of the record, in the order of the dict literal
RecordKeys == <<"genders", "hobbies", "subjects", "state_city_map">>

\* tokens of the JSON text: a punctuation mark or a key of the record (t), or
\* a string (t = "str") with its text v
Punct(p) == [t |-> p, v |-> <<>>]
Str(x) == [t |-> "str", v |-> x]

\* json.dump of a list of strings
dump_list(l) == <<Punct("[")>> \o [i \in DOMAIN l |-> Str(l[i])] \o <<Punct("]")>>

\* json.dump of the items of a dict of lists
RECURSIVE dump_items(_)
dump_items(items) ==
    IF items = <<>> THEN <<>>
    ELSE <<Str(items[1][1])>> \o dump_list(items[1][2]) \o dump_items(Tail(items))

\* json.dump of one entry of the record
dump_entry(pv, k) ==
    <<Punct(k)>> \o (IF k = "state_city_map"
                     THEN <<Punct("{")>> \o dump_items(pv[k]) \o <<Punct("}")>>
                     ELSE dump_list(pv[k]))

\* mutant: the file written without the entry state_city_map
dump_without_map(pv) ==
    <<Punct("{")>> \o dump_entry(pv, "genders") \o dump_entry(pv, "hobbies")
        \o dump_entry(pv, "subjects") \o <<Punct("}")>>

\* json.dump(possible_values, fp): the four entries in the order of the dict
dump(pv) ==
    <<Punct("{")>> \o dump_entry(pv, "genders") \o dump_entry(pv, "hobbies")
        \o dump_entry(pv, "subjects") \o dump_entry(pv, "state_city_map")
        \o <<Punct("}")>>

\* position of the first "]" from i on
ListEnd(f, i) ==
    CHOOSE j \in i..Len(f) : f[j].t = "]" /\ \A k \in i..(j - 1) : f[k].t # "]"

\* json.load of the list that opens at token i
load_list(f, i) == [k \in 1..(ListEnd(f, i) - i - 1) |-> f[i + k].v]

\* json.load of the items of a dict, the first key at token i
RECURSIVE load_items(_, _)
load_items(f, i) ==
    IF f[i].t = "}" THEN <<>>
    ELSE <<<<f[i].v, load_list(f, i + 1)>>>> \o load_items(f, ListEnd(f, i + 1) + 1)

\* json.load(fp): the entries found in the file
load(f) ==
    LET found == {k \in Range(RecordKeys) : \E i \in DOMAIN f : f[i].t = k}
        at(k) == CHOOSE i \in DOMAIN f : f[i].t = k
    IN  [k \in found |-> IF k = "state_city_map" THEN load_items(f, at(k) + 2)
                         ELSE load_list(f, at(k) + 1)]

\* the dict literal with the entry k evaluated
WithEntry(d, k, val) == [x \in DOMAIN d \cup {k} |-> IF x = k THEN val ELSE d[x]]

\* possible_values(use_cache) is called, in a new run of the test module;
\* lines 64-67: the cache is read when asked for and present
PvCall ==
    /\ pvPc \in {"idle", "returned", "raised"}
    /\ session \in {"none", "ended"}
    /\ pvCalls < MaxCalls
    /\ pvCalls' = pvCalls + 1
    /\ \E u \in BOOLEAN :
        /\ use_cache' = u
        /\ pvPc' = IF u /\ cache_exists THEN "load" ELSE "get_driver"
    /\ hadCache' = cache_exists
    /\ prevWrote' = (pvPc = "returned" /\ ~(use_cache /\ hadCache))
    /\ prevRet' = IF pvPc = "returned" THEN possible_values_ ELSE <<>>
    /\ drv' = "none" /\ partial' = <<>>
    /\ session' = "none" /\ fixtureDrv' = "none"
    /\ UNCHANGED <<formVars, scanVars, genVars, dateVars, cache_exists, cache_file, site>>

\* possible_values = json.load(fp); return possible_values
PvLoad ==
    /\ pvPc = "load"
    /\ possible_values_' = load(cache_file)
    /\ pvPc' = "returned"
    /\ UNCHANGED <<formVars, scanVars, genRest, dateVars, use_cache, cache_exists,
                   cache_file, site, drv, partial, hadCache, prevWrote, prevRet,
                   pvCalls, session, fixtureDrv>>

\* drv = get_driver(2.0): the browser starts, or it does not and the call raises
PvGetDriver ==
    /\ pvPc = "get_driver"
    /\ \E ok \in BOOLEAN :
        /\ drv' = IF ok THEN "open" ELSE "none"
        /\ pvPc' = IF ok THEN "get_page" ELSE "raised"
    /\ UNCHANGED <<formVars, scanVars, genVars, dateVars, use_cache, cache_exists,
                   cache_file, site, partial, hadCache, prevWrote, prevRet,
                   pvCalls, session, fixtureDrv>>

\* page = get_registration_page(drv): the page loads, or the call raises
PvGetPage ==
    /\ pvPc = "get_page"
    /\ \E ok \in BOOLEAN : pvPc' = IF ok THEN "scrape_genders" ELSE "raised"
    /\ UNCHANGED <<formVars, scanVars, genVars, dateVars, use_cache, cache_exists,
                   cache_file, site, drv, partial, hadCache, prevWrote, prevRet,
                   pvCalls, session, fixtureDrv>>

\* one entry of the dict literal is scraped, or its scan raises; after the
\* last entry the record is bound to possible_values
PvScrape(i) ==
    /\ pvPc = "scrape_" \o RecordKeys[i]
    /\ \/ /\ partial' = WithEntry(partial, RecordKeys[i], site[RecordKeys[i]])
          /\ pvPc' = IF i < Len(RecordKeys) THEN "scrape_" \o RecordKeys[i + 1] ELSE "reset"
          /\ possible_values_' = IF i < Len(RecordKeys) THEN possible_values_ ELSE partial'
       \/ /\ pvPc' = "raised"
          /\ UNCHANGED <<partial, possible_values_>>
    /\ UNCHANGED <<formVars, scanVars, genRest, dateVars, use_cache, cache_exists,
                   cache_file, site, drv, hadCache, prevWrote, prevRet,
                   pvCalls, session, fixtureDrv>>

\* page.reset(): returns or raises
PvReset ==
    /\ pvPc = "reset"
    /\ \E ok \in BOOLEAN : pvPc' = IF ok THEN "quit" ELSE "raised"
    /\ UNCHANGED <<formVars, scanVars, genVars, dateVars, use_cache, cache_exists,
                   cache_file, site, drv, partial, hadCache, prevWrote, prevRet,
                   pvCalls, session, fixtureDrv>>

\* drv.quit()
PvQuit ==
    /\ pvPc = "quit"
    /\ drv' = "quit"
    /\ pvPc' = "write"
    /\ UNCHANGED <<formVars, scanVars, genVars, dateVars, use_cache, cache_exists,
                   cache_file, site, partial, hadCache, prevWrote, prevRet,
                   pvCalls, session, fixtureDrv>>

\* json.dump(possible_values, fp); return possible_values
PvWrite ==
    /\ pvPc = "write"
    /\ cache_file' = dump(possible_values_)
    /\ cache_exists' = TRUE
    /\ pvPc' = "returned"
    /\ UNCHANGED <<formVars, scanVars, genVars, dateVars, use_cache, site, drv,
                   partial, hadCache, prevWrote, prevRet, pvCalls, session, fixtureDrv>>

\* the fixture driver is set up for the session: drv = get_driver(); yield drv
DriverSetup ==
    /\ pvPc = "returned" /\ session = "none"
    /\ \E ok \in BOOLEAN :
        /\ fixtureDrv' = IF ok THEN "open" ELSE "none"
        /\ session' = IF ok THEN "tests" ELSE "ended"
    /\ UNCHANGED <<formVars, scanVars, genVars, dateVars, pvPc, use_cache,
                   cache_exists, cache_file, site, drv, partial, hadCache, prevWrote,
                   prevRet, pvCalls>>

\* the tests of the session run: all pass, or one fails or raises
TestsRun ==
    /\ session = "tests"
    /\ session' \in {"passed", "failed"}
    /\ UNCHANGED <<formVars, scanVars, genVars, dateVars, pvPc, use_cache,
                   cache_exists, cache_file, site, drv, partial, hadCache, prevWrote,
                   prevRet, pvCalls, fixtureDrv>>

\* teardown of the fixture, the code after its yield: drv.quit()
DriverTeardown ==
    /\ session \in {"passed", "failed"}
    /\ fixtureDrv' = "quit"
    /\ session' = "ended"
    /\ UNCHANGED <<formVars, scanVars, genVars, dateVars, pvPc, use_cache,
                   cache_exists, cache_file, site, drv, partial, hadCache, prevWrote,
                   prevRet, pvCalls>>

\* before the first run: the site offers one of the records, the cache file
\* is absent or holds a record written by an earlier run
InitCache ==
    /\ InitForm /\ InitScanIdle /\ InitGenIdle /\ InitDatesIdle
    /\ pvPc = "idle" /\ use_cache = FALSE
    /\ site \in PossibleValues
    /\ \/ cache_exists = FALSE /\ cache_file = <<>>
       \/ cache_exists = TRUE /\ cache_file \in {dump(pv) : pv \in PossibleValues}
    /\ drv = "none" /\ partial = <<>>
    /\ hadCache = FALSE /\ prevWrote = FALSE /\ prevRet = <<>>
    /\ pvCalls = 0 /\ session = "none" /\ fixtureDrv = "none"

NextCache ==
    \/ PvCall
    \/ PvLoad
    \/ PvGetDriver
    \/ PvGetPage
    \/ \E i \in DOMAIN RecordKeys : PvScrape(i)
    \/ PvReset
    \/ PvQuit
    \/ PvWrite
    \/ DriverSetup
    \/ TestsRun
    \/ DriverTeardown

SpecCache == InitCache /\ [][NextCache]_vars

\* ------------------------------------------------------------------------
\* hypothesis_strategies: dates of birth.  Days are counted from an epoch.
\* STRATEGIES is built once, when the test module is imported; values are
\* drawn from it for the rest of the run, while the clock goes on.
\* ------------------------------------------------------------------------
\* days the run can last after STRATEGIES was built
MaxDays == 3

\* the ages of the comment "students can be 16-60 years old"
min_age_years == 16
max_age_years == 60

\* timedelta(days=365.25 * years).days
timedelta_days(years) == (1461 * years) \div 4

\* the days the module can be imported on
BuildDays == {0, 1}

\* st.dates(min_value, max_value): the dates of the range; the model draws
\* the ones of `some`, which lie next to the ends
dates(min_value, max_value, some) ==
    {d \in some : d >= min_value /\ d <= max_value}

\* st.dates(min_value): no upper end but date.max
dates_from(min_value, some) == {d \in some : d >= min_value}

\* valid_date_of_birth, built on day b
valid_date_of_birth(b, some) ==
    dates(b - timedelta_days(max_age_years), b - timedelta_days(min_age_years), some)

\* invalid_date_of_birth, built on day b
invalid_date_of_birth(b, some) == dates_from(b, some)

\* the dates tried: around the two ends of the valid range and around the day
\* of the build
SomeDates(b) ==
    UNION {{b - timedelta_days(y) - 1, b - timedelta_days(y), b - timedelta_days(y) + 1} :
                y \in {0, min_age_years, max_age_years}}
    \cup {b + MaxDays + 1}

\* the clock passes midnight
Tick ==
    /\ today < builtOn + MaxDays
    /\ today' = today + 1
    /\ UNCHANGED <<formVars, scanVars, genVars, pvVars, builtOn, dobKind, dob, dobDrawnOn>>

\* a test draws a date from STRATEGIES["date_of_birth"].valid
DrawValidDate ==
    /\ \E d \in valid_date_of_birth(builtOn, SomeDates(builtOn)) : dob' = d
    /\ dobKind' = "valid"
    /\ dobDrawnOn' = today
    /\ UNCHANGED <<formVars, scanVars, genVars, pvVars, builtOn, today>>

\* a test draws a date from STRATEGIES["date_of_birth"].invalid
DrawInvalidDate ==
    /\ \E d \in invalid_date_of_birth(builtOn, SomeDates(builtOn)) : dob' = d
    /\ dobKind' = "invalid"
    /\ dobDrawnOn' = today
    /\ UNCHANGED <<formVars, scanVars, genVars, pvVars, builtOn, today>>

\* the module has just been imported: STRATEGIES built from datetime.now()
InitDates ==
    /\ InitForm /\ InitScanIdle /\ InitGenIdle /\ InitPvIdle
    /\ builtOn \in BuildDays
    /\ today = builtOn
    /\ dobKind = "none" /\ dob = 0 /\ dobDrawnOn = today

NextDates ==
    \/ Tick
    \/ DrawValidDate
    \/ DrawInvalidDate

SpecDates == InitDates /\ [][NextDates]_vars

\* ------------------------------------------------------------------------
\* Claims about the form session (checked under Spec)
\* ------------------------------------------------------------------------
\* C1: no control receives a second fill interaction unless clear_field
\* cleared it or the page was reset since its previous fill interaction.
\* Violated: a select method that raises part-way leaves the flag False and
\* the page un-reset, and the next iteration's fill_form fills the field again.
C1_NoSecondFill == \A f \in Fields : fillsSince[f] <= 1

\* C2: in a fill_form call, an entry whose value is None or whose flag was
\* already True gets no interaction and keeps its flag; every other entry gets
\* exactly one interaction and its flag becomes True; entries not reached yet
\* are untouched.
C2_FillFormFrame ==
    pc \in {"fill", "submit"} =>
        \A i \in 1..Len(DataOrder) :
            LET f == DataOrder[i] IN
            IF (pc = "submit" \/ i < idx) /\ data[f] # None /\ ~entry_filled[f]
            THEN calls[f] = 1 /\ fields_filled[f]
            ELSE calls[f] = 0 /\ fields_filled[f] = entry_filled[f]

\* C2 witness: a completed fill_form call that skipped a filled field holding
\* a non-null value and filled another field
C2_Witness ==
    /\ pc = "submit"
    /\ \E f \in Fields : entry_filled[f] /\ data[f] # None /\ calls[f] = 0
    /\ \E g \in Fields : ~entry_filled[g] /\ calls[g] = 1 /\ fields_filled[g]

\* C3: after reset() completes every flag is False and the handles belong to
\* the current document.
C3_ResetClearsAll ==
    lastOp = "reset" => (\A f \in Fields : ~fields_filled[f]) /\ loaded

\* C3 witness: a completed reset that followed a fill_form call which set all
\* twelve flags
C3_Witness ==
    /\ lastOp = "reset"
    /\ \A f \in Fields : calls[f] = 1
    /\ fields_filled = NoFlags

\* C10: verify_submission returns True exactly when the success indicator
\* became visible within the timeout.
\* Violated: with the indicator visible and "#closeLargeModal" not found the
\* NoSuchElementException is caught and False is returned.
C10_TrueIffIndicator ==
    lastOp = "verify_submission" => (is_submitted = indicator)

\* ------------------------------------------------------------------------
\* Claims about domain discovery (checked under SpecScan)
\* ------------------------------------------------------------------------
\* the options listed while the single letter number i is the text of control c
OptionsForLetter(c, i) == Range(Options(c, <<alphabet[i]>>))

\* C4: the scan returns, without error, exactly the options listed under the
\* 26 single letters, each once, in ascending order (the empty sequence when
\* no letter lists an option).
C4_ScanResult ==
    scanPc = "returned" =>
        /\ scanErr = "none"
        /\ \A i, j \in DOMAIN scanResult :
                i < j => LexLess(scanResult[i], scanResult[j])
        /\ Range(scanResult) =
                UNION {OptionsForLetter(scanCtl, i) : i \in DOMAIN alphabet}

\* C4 witness: a page listing its subjects out of order, every one of them
\* under several letters, scanned into the ascending sequence
C4_Witness ==
    /\ scanPc = "returned"
    /\ subjectsDom = <<Maths, Arts, Hindi>>
    /\ scanResult = <<Arts, Hindi, Maths>>

\* C5: in a scan started on an empty control the letters are typed once each
\* in alphabet order, the control is empty before each letter is typed, every
\* read of the options sees exactly the current letter, and the control is
\* empty when the scan returns.
C5_OneLetterAtATime ==
    scanCtl # "none" =>
        /\ typedLog = SubSeq(alphabet, 1, Len(typedLog))
        /\ readTexts \subseteq {<<alphabet[i]>> : i \in DOMAIN alphabet}
        /\ scanPc = "type" => typed[scanCtl] = <<>> /\ Len(typedLog) = letterIdx - 1
        /\ scanPc \in {"read", "clear"} =>
                typed[scanCtl] = <<alphabet[letterIdx]>> /\ Len(typedLog) = letterIdx
        /\ scanPc \in {"return", "returned"} =>
                /\ typedLog = alphabet
                /\ typed[scanCtl] = <<>>
                /\ readTexts = {<<alphabet[i]>> : i \in DOMAIN alphabet}

\* C5 witness: a scan of the city control that found options has returned
C5_Witness ==
    /\ scanPc = "returned"
    /\ scanCtl = "city"
    /\ typedLog = alphabet
    /\ res # {}

\* C6: every scrape_subjects call of a session returns the same sequence.
C6_RescanSame == \A i, j \in DOMAIN scanned : scanned[i] = scanned[j]

\* C6 witness: two completed scans of a subjects menu that has options
C6_Witness == Len(scanned) >= 2 /\ scanned[1] # <<>> /\ scanned[2] # <<>>

\* C7: every state key of the returned map has a non-empty city list.
\* Violated: the scan's result is stored whatever it is, so a state whose city
\* menu lists nothing is a key of the map, with the empty list.
C7_CityListsNonEmpty ==
    mapReturned => \A i \in DOMAIN state_city_map : state_city_map[i][2] # <<>>

\* C8: one scan of the state control, then per discovered state, in order, a
\* select, a city scan and a clear: 1 + |states| scans in all, and while a
\* city scan runs exactly the current state is selected.
\* Violated: select_from_dropdown clicks the first listed option containing
\* the state's text, which is another state when that text occurs in it.
C8_SelectScanClear ==
    /\ scPc = "scan_cities" =>
            /\ selected["state"] = <<states[stateIdx]>>
            /\ Len(state_city_map) = stateIdx - 1
            /\ baseScans = 1 + stateIdx
    /\ scPc = "select" => selected["state"] = <<>> /\ baseScans = stateIdx
    /\ mapReturned =>
            /\ baseScans = 1 + Len(states)
            /\ [i \in DOMAIN state_city_map |-> state_city_map[i][1]] = states

\* C9: when element.clear() raises at a letter of a scan, the scan has ended
\* there: no later letter was typed, the scan returned nothing, its caller has
\* not returned and no map was returned.
C9_ClearFailureAborts ==
    clearFailedAt # 0 =>
        /\ scanPc = "raised"
        /\ scanErr # "none"
        /\ Len(typedLog) = clearFailedAt
        /\ ~scanReturned
        /\ caller # "none"
        /\ caller = "scrape_states_and_cities" => ~mapReturned

\* C9 witness: clear() raised during the second state's city scan, after
\* options had been collected and one state had been stored
C9_Witness ==
    /\ clearFailedAt > 1
    /\ scanCtl = "city"
    /\ res # {}
    /\ state_city_map # <<>>

\* ------------------------------------------------------------------------
\* Claims about the strategies (checked under SpecGen and SpecDates)
\* ------------------------------------------------------------------------
\* C11: no value is produced both by the valid and by the invalid strategy of
\* the free-text fields, the 300-character boundary included.
\* Violated: 300 letters are a text of max_size 300 for the valid strategy and
\* a text of min_size 300 for the invalid one; and a long text of letters and
\* spaces is stripped to a short valid name.
C11_NamesDisjoint ==
    genField = "name" /\ hasValid /\ hasInvalid => drawnValid # drawnInvalid

\* C12: a valid mobile is exactly 10 characters, all of 0-9 (a leading zero
\* included); an invalid mobile is null, 1 to 9 digits, or 1 to 10 characters
\* with a non-digit among them; so the two strategies share no value.
C12_MobileShapes ==
    genField = "mobile" =>
        /\ hasValid =>
                /\ ~drawnValid.none
                /\ Len(drawnValid.text) = 10
                /\ \A i \in DOMAIN drawnValid.text : drawnValid.text[i] \in 48..57
        /\ hasInvalid =>
                \/ drawnInvalid.none
                \/ /\ Len(drawnInvalid.text) \in 1..9
                   /\ \A i \in DOMAIN drawnInvalid.text : drawnInvalid.text[i] \in 48..57
                \/ /\ Len(drawnInvalid.text) \in 1..10
                   /\ \E i \in DOMAIN drawnInvalid.text : drawnInvalid.text[i] \notin 48..57
        /\ hasValid /\ hasInvalid => drawnValid # drawnInvalid

\* C12 witness: a valid mobile with a leading zero next to an invalid one of
\* nine digits
C12_Witness ==
    /\ genField = "mobile" /\ hasValid /\ hasInvalid
    /\ drawnValid.text[1] = 48
    /\ ~drawnInvalid.none
    /\ Len(drawnInvalid.text) = 9
    /\ \A i \in DOMAIN drawnInvalid.text : drawnInvalid.text[i] \in 48..57

\* C14: a valid pair is a key of state_city_map with a city of that key's
\* list; an invalid pair has a null city and a state that is a key or null.
C14_StateCityPairs ==
    genField = "state_and_city" =>
        LET m == possible_values_.state_city_map IN
        /\ hasValid =>
                \E i \in DOMAIN m :
                    /\ drawnValid[1] = Val(m[i][1])
                    /\ \E j \in DOMAIN m[i][2] : drawnValid[2] = Val(m[i][2][j])
        /\ hasInvalid =>
                /\ drawnInvalid[2] = NoneVal
                /\ drawnInvalid[1] = NoneVal
                   \/ \E i \in DOMAIN m : drawnInvalid[1] = Val(m[i][1])

\* C14 witness: with two states of different cities, a valid pair of the
\* second state and an invalid pair with a state
C14_Witness ==
    /\ genField = "state_and_city" /\ hasValid /\ hasInvalid
    /\ possible_values_.state_city_map = <<<<Goa, <<Agra>>>>, <<NCR, <<Delhi>>>>>>
    /\ drawnValid = <<Val(NCR), Val(Delhi)>>
    /\ drawnInvalid = <<Val(Goa), NoneVal>>

\* C15: a valid (gender, picture) pair has a discovered gender and a *.jpeg
\* picture of that gender's directory.
C15_PictureOfGender ==
    genField = "gender_and_picture" /\ hasValid =>
        /\ \E i \in DOMAIN possible_values_.genders :
                drawnValid[1] = possible_values_.genders[i]
        /\ drawnValid[2].dir = drawnValid[1]
        /\ drawnValid[2].file \in pictures[drawnValid[1]]
        /\ drawnValid[2].file.ext = "jpeg"

\* C15 witness: a pair drawn for the second gender while the first gender has
\* other pictures
C15_Witness ==
    /\ genField = "gender_and_picture" /\ hasValid
    /\ drawnValid[1] = Female
    /\ pictures[Male] # pictures[Female]

\* C13: a valid date of birth lies between 21915 and 5844 days before the day
\* it is drawn on, and an invalid one is not before the day it is drawn on,
\* however long after the build of the strategies the draw happens.
C13_DatesRelativeToNow ==
    /\ dobKind = "valid" =>
            /\ dob >= dobDrawnOn - 21915
            /\ dob <= dobDrawnOn - 5844
    /\ dobKind = "invalid" => dob >= dobDrawnOn

\* C16: a call with use_cache and a cache file present returns the record of
\* the file, opens no browser and scans nothing; any other call that returns
\* has scanned the four entries and left them, whole, in the cache file; and
\* a call with use_cache that follows a call that wrote the file returns an
\* equal record without scanning.
C16_CacheRoundTrip ==
    pvPc = "returned" =>
        /\ use_cache /\ hadCache =>
                /\ possible_values_ = load(cache_file)
                /\ drv = "none"
                /\ DOMAIN partial = {}
        /\ ~(use_cache /\ hadCache) =>
                /\ DOMAIN partial = Range(RecordKeys)
                /\ possible_values_ = site
                /\ cache_exists
                /\ load(cache_file) = possible_values_
        /\ use_cache /\ prevWrote =>
                /\ possible_values_ = prevRet
                /\ drv = "none"
                /\ DOMAIN partial = {}

\* C16 witness: the second call returns from the cache what the first call
\* scanned and wrote, a record with two states
C16_Witness ==
    /\ pvPc = "returned" /\ use_cache /\ prevWrote /\ pvCalls = 2
    /\ Len(possible_values_.state_city_map) = 2
    /\ possible_values_ = site

\* C17: when possible_values has ended, by return or by exception, its driver
\* is not left open; when the session has ended, the fixture's driver is not
\* left open.
C17_DriversReleased ==
    /\ pvPc \in {"returned", "raised"} => drv # "open"
    /\ session = "ended" => fixtureDrv # "open"

\* C18: in every iteration fill_form, submit and verify_submission are called
\* in this order: once fill_form has returned, whatever it filled, submit is
\* called once and verify_submission after it; and after the submit the
\* iteration has no fill interaction before its clear_field or reset.
C18_FillSubmitVerify ==
    /\ ops \in {<<>>, <<"fill_form">>, <<"fill_form", "submit">>,
                <<"fill_form", "submit", "verify_submission">>}
    /\ pc = "submit" => ops = <<"fill_form">>
    /\ pc = "verify" => ops = <<"fill_form", "submit">>
    /\ pc \in {"finally", "branch", "clear", "assert"} =>
            ops = <<"fill_form", "submit", "verify_submission">>
    /\ lastOp \in {"clear_field", "reset"} /\ pc = "idle" =>
            ops = <<"fill_form", "submit", "verify_submission">>
    /\ sinceSubmit # "filled"

\* C18 witness: an iteration with a null field has gone through fill_form,
\* submit and verify_submission, and has then cleared the field
C18_Witness ==
    /\ test = "field_validation" /\ pc = "idle" /\ lastOp = "clear_field"
    /\ ops = <<"fill_form", "submit", "verify_submission">>
    /\ \E f \in Fields : data[f] = None

\* C19: when clear_field raises AttributeError for an overridden field after a
\* rejected submission, the fallback reset has run: every flag is False and
\* the clearing step has raised nothing.
C19_FallbackReset ==
    lastOp = "clear_field_no_attribute" =>
        /\ \A f \in Fields : ~fields_filled[f]
        /\ err = "none" \/ err = "AssertionError"

\* C20: a flag is True only when an interaction has changed the control of
\* its field since the last clear_field of the field or reset.
C20_FlagMeansFilled ==
    \A f \in Fields : fields_filled[f] => fillsSince[f] > 0

\* C21: field_validation, entered with a flag True, resets the page and goes
\* on: fill_form is reached, it begins with every flag False, and when it has
\* returned every non-null field of the record was filled in this iteration.
\* Violated: the call page.reset(False) raises TypeError, so field_validation
\* ends before fill_form and the flags stay as they were.
C21_ResetOnEntry ==
    test = "field_validation" =>
        /\ ops # <<>>
        /\ entry_filled = NoFlags
        /\ pc = "submit" => \A f \in Fields : data[f] # None => calls[f] > 0

\* C22: a step of fill_form that acts on the city control is taken with a
\* non-null state in the record and the state control already selected (its
\* flag True, its control holding a value).
C22_CityAfterState ==
    [][Len(control'["city"]) > Len(control["city"]) =>
            /\ data["state"] # None
            /\ fields_filled["state"]
            /\ control["state"] # <<>>]_vars

\* C22 witness: the city control was acted on in an iteration that did not
\* touch the state control, the state selected by an earlier iteration
C22_Witness ==
    /\ control["city"] # <<>>
    /\ calls["city"] > 0 /\ calls["state"] = 0
    /\ fields_filled["state"]

\* C23: a field whose flag is False holds no value left by an earlier fill.
\* Violated: a select method that raises after its first WebDriver call leaves
\* the control changed and the flag False.
C23_FlagsMatchControls ==
    \A f \in Fields : ~fields_filled[f] => control[f] = <<>>

\* C24: select_from_dropdown selects the option whose text equals the
\* request, and when it raises nothing is selected.
\* Violated: the first listed option that contains the request is clicked,
\* another option when the request is a part of its text.
C24_SelectsRequested ==
    /\ caller = "scrape_states_and_cities" /\ scPc = "scan_cities" =>
            selected["state"][Len(selected["state"])] = states[stateIdx]
    /\ scPc = "raised" /\ scanErr = "NoSuchElementException" =>
            selected["state"] = <<>>

====
